---- MODULE Spec2Model ----
(***************************************************************************)
(* Model of the two reference-data generators of JWave-Pro:                *)
(*   scripts/generate_basic_reference.py  (the "basic" generator)          *)
(*   scripts/generate_reference_data.py   (the "full" generator)           *)
(*                                                                         *)
(* The state is the output directory (file name -> lines on disk), the     *)
(* position of the running script in its sequence of file writes, and what *)
(* the run has printed and how it exited.                                  *)
(*                                                                         *)
(* A floating point number is a record [u |-> unit, n |-> integer]: the    *)
(* number n * unit for the exact units "1", "1/sqrt2" and "1e-8", and the  *)
(* element with index n of the library result named u otherwise.           *)
(***************************************************************************)
EXTENDS Integers, Sequences, FiniteSets, TLC

VARIABLES
    files,      \* the output directory: file name -> sequence of lines on disk
    prog,       \* "none", "basic" or "full": the script of the current / last run
    phase,      \* "idle" (never run), "running", "exited"
    pc,         \* index of the next write of the running script
    runs,       \* number of runs started so far in this behaviour
    failures,   \* number of I/O failures the environment has injected so far
    opened,     \* file names the current run has opened with mode 'w', in order
    done,       \* file names the current run wrote and closed without an exception
    swallowed,  \* edge cases whose DWT try block caught an exception in this run
    printed,    \* messages printed by the current run (tags)
    total,      \* the number printed after "Total files created:", -1 if not printed
    exit,       \* exit status of the last run, -1 while none has ended
    depsOk,     \* whether numpy, scipy and pywt could be imported in this run
    lastCall    \* the last write call that ran: its arguments and its outcome

vars == <<files, prog, phase, pc, runs, failures, opened, done, swallowed,
          printed, total, exit, depsOk, lastCall>>

(***************************************************************************)
(* Bounds of the model.                                                    *)
(***************************************************************************)
MaxRuns == 2        \* runs of the scripts in one behaviour of SpecRuns
MaxFailures == 1    \* I/O failures the environment injects in one run
MaxPartial == 1     \* a failing write leaves at most this many lines on disk
MaxChirp == 2       \* samples of the chirp signal that are modelled
MaxSine == 2        \* samples of the 64-point sine that are modelled
MaxWidths == 2      \* CWT scales of the chirp that are modelled

\* Sizes set by the full generator.
fft_n == 64         \* n = 64
cwt_fs == 1000      \* fs = 1000 (np.linspace(0, 1, fs))
cwt_widths == 30    \* np.arange(1, 31)

Min(a, b) == IF a < b THEN a ELSE b

(***************************************************************************)
(* Numbers and arrays.                                                     *)
(***************************************************************************)
V(u, k) == [u |-> u, n |-> k]
Int1(k) == V("1", k)
OverSqrt2(k) == V("1/sqrt2", k)
E8(k) == V("1e-8", k)
Cplx(re, im) == [re |-> re, im |-> im]

\* An array returned by a numeric library, element i named by its index.
Lib(name, len) == [i \in 1..len |-> V(name, i - 1)]
\* range(a, b) / np.arange(a, b)
arange(a, b) == [i \in 1..(b - a) |-> Int1(a + i - 1)]
\* [x] * k
Rep(x, k) == [i \in 1..k |-> x]

(***************************************************************************)
(* Lines of a file.  f"{value:.16e}" prints a double with 17 significant   *)
(* digits, which determines the double: a formatted number is the number.  *)
(* A cell is what stands between two spaces of a line: one number, or the  *)
(* two numbers of a "real,imag" pair.  A line is a header, a sequence of   *)
(* cells, or literal text.                                                 *)
(***************************************************************************)
HeaderLine(header) == [kind |-> "header", text |-> header, cells |-> <<>>]
TextLine(text) == [kind |-> "text", text |-> text, cells |-> <<>>]
\* f"{value:.16e}"
FmtReal(value) == <<value>>
\* f"{value.real:.16e},{value.imag:.16e}"
FmtComplex(value) == <<value.re, value.im>>
DataLine(cells) == [kind |-> "data", text |-> "", cells |-> cells]

\* if header: f.write(f"# {header}\n")
HeaderPart(header) == IF header # "" THEN <<HeaderLine(header)>> ELSE <<>>

\* The write call of one file: who wrote, where, from what, and the lines.
Call(fn, filename, header, data, lines, try) ==
    [fn |-> fn, filename |-> filename, header |-> header, data |-> data,
     lines |-> lines, try |-> try]

\* save_vector with a loop that stops one element early
save_vector_lines_short(data, header) ==
    HeaderPart(header) \o
    [i \in 1..(Len(data) - 1) |-> DataLine(<<FmtReal(data[i])>>)]

save_vector_lines(data, header) ==
    HeaderPart(header) \o [i \in 1..Len(data) |-> DataLine(<<FmtReal(data[i])>>)]

save_matrix_lines(data, header) ==
    HeaderPart(header) \o
    [r \in 1..Len(data) |->
        DataLine([c \in 1..Len(data[r]) |-> FmtReal(data[r][c])])]

save_complex_matrix_lines(data, header) ==
    HeaderPart(header) \o
    [r \in 1..Len(data) |->
        DataLine([c \in 1..Len(data[r]) |-> FmtComplex(data[r][c])])]

save_vector(data, filename, header) ==
    Call("save_vector", filename, header, data, save_vector_lines(data, header), "")

save_matrix(data, filename, header) ==
    Call("save_matrix", filename, header, data, save_matrix_lines(data, header), "")

save_complex_matrix(data, filename, header) ==
    Call("save_complex_matrix", filename, header, data,
         save_complex_matrix_lines(data, header), "")

\* save_vector of generate_basic_reference.py (the same code)
basic_save_vector(data, filename, header) ==
    Call("save_vector", filename, header, data,
         HeaderPart(header) \o [i \in 1..Len(data) |-> DataLine(<<FmtReal(data[i])>>)],
         "")

\* with open(path, 'w') as f: f.write(...) ...
open_write(filename, lines) == Call("open", filename, "", <<>>, lines, "")

(***************************************************************************)
(* The basic generator.                                                    *)
(***************************************************************************)
basic_signal == [i \in 1..8 |-> Int1(i)]

\* range(start, stop, step) for step > 0, as the sequence of its values
range3(start, stop, step) ==
    IF stop <= start THEN << >>
    ELSE [k \in 1..((stop - start + step - 1) \div step) |-> start + (k - 1) * step]

\* the loop with step 1 instead of 2
haar_range_step1(signal) == range3(0, Len(signal), 1)

\* for i in range(0, len(signal), 2)
haar_range(signal) == range3(0, Len(signal), 2)

\* signal[i] with Python's 0-based index; an index past the end is an IndexError
InRange(signal, i) == i >= 0 /\ i < Len(signal)
At(signal, i) == signal[i + 1]

\* the indices read by the iteration for i: signal[i] and signal[i+1]
haar_pair(i) == <<i, i + 1>>
\* (signal[i] + signal[i+1]) / sqrt2
haar_approx(a, b) == OverSqrt2(a.n + b.n)
\* (signal[i] - signal[i+1]) / sqrt2
haar_detail(a, b) == OverSqrt2(a.n - b.n)

RECURSIVE haar_loop(_, _, _)
\* the loop of generate_haar_reference over the indices `is`, acc the lists so
\* far; err when an iteration reads past the end of the signal
haar_loop(signal, is, acc) ==
    IF is = << >> THEN acc
    ELSE LET p == haar_pair(Head(is)) IN
         IF ~(InRange(signal, p[1]) /\ InRange(signal, p[2]))
         THEN [acc EXCEPT !.err = TRUE]
         ELSE haar_loop(signal, Tail(is),
                [approx |-> Append(acc.approx,
                                   haar_approx(At(signal, p[1]), At(signal, p[2]))),
                 detail |-> Append(acc.detail,
                                   haar_detail(At(signal, p[1]), At(signal, p[2]))),
                 err |-> FALSE])

haar_manual(signal) ==
    haar_loop(signal, haar_range(signal),
              [approx |-> << >>, detail |-> << >>, err |-> FALSE])

\* an exception raised by the script's own computation, before any write
Raises(exc) == Call("raise", exc, "", <<>>, <<>>, "")

generate_haar_reference ==
    LET h == haar_manual(basic_signal) IN
    IF h.err THEN <<Raises("IndexError")>>
    ELSE
    << basic_save_vector(basic_signal, "haar_simple_input.txt",
                         "Simple test signal [1,2,3,4,5,6,7,8]"),
       basic_save_vector(h.approx, "haar_level1_approx_manual.txt",
                         "Haar level 1 approximation (manual calc)"),
       basic_save_vector(h.detail, "haar_level1_detail_manual.txt",
                         "Haar level 1 detail (manual calc)"),
       basic_save_vector(Rep(Int1(5), 8), "haar_constant_input.txt",
                         "Constant signal [5,5,5,5,5,5,5,5]"),
       basic_save_vector(arange(0, 8), "haar_linear_input.txt",
                         "Linear signal [0,1,2,3,4,5,6,7]") >>

basic_generate_fft_reference ==
    LET dc_signal == Rep(Int1(1), 8)
        dc_fft_real == <<Int1(8)>> \o Rep(Int1(0), 7)
        dc_fft_imag == Rep(Int1(0), 8)
        sine_signal == [i \in 1..8 |-> V("sin(2*pi*i/8)", i - 1)]
        impulse == <<Int1(1)>> \o Rep(Int1(0), 7)
        impulse_fft_real == Rep(Int1(1), 8)
        impulse_fft_imag == Rep(Int1(0), 8)
    IN
    << basic_save_vector(dc_signal, "fft_dc_input.txt", "DC signal (all ones)"),
       basic_save_vector(dc_fft_real, "fft_dc_output_real.txt",
                         "FFT of DC signal (real part)"),
       basic_save_vector(dc_fft_imag, "fft_dc_output_imag.txt",
                         "FFT of DC signal (imaginary part)"),
       basic_save_vector(sine_signal, "fft_sine_simple_input.txt",
                         "One cycle sine wave over 8 points"),
       basic_save_vector(impulse, "fft_impulse_input.txt", "Impulse signal"),
       basic_save_vector(impulse_fft_real, "fft_impulse_output_real.txt",
                         "FFT of impulse (real)"),
       basic_save_vector(impulse_fft_imag, "fft_impulse_output_imag.txt",
                         "FFT of impulse (imag)") >>

generate_wavelet_filters ==
    LET haar_dec_lo == <<OverSqrt2(1), OverSqrt2(1)>>
        haar_dec_hi == <<OverSqrt2(1), OverSqrt2(-1)>>
        haar_rec_lo == <<OverSqrt2(1), OverSqrt2(1)>>
        haar_rec_hi == <<OverSqrt2(-1), OverSqrt2(1)>>
        db4_dec_lo == <<E8(48296291), E8(83651630), E8(22414387), E8(-12940952)>>
        db4_dec_hi == <<E8(-12940952), E8(-22414387), E8(83651630), E8(-48296291)>>
    IN
    << basic_save_vector(haar_dec_lo, "filter_haar_dec_lo.txt",
                         "Haar decomposition low-pass"),
       basic_save_vector(haar_dec_hi, "filter_haar_dec_hi.txt",
                         "Haar decomposition high-pass"),
       basic_save_vector(haar_rec_lo, "filter_haar_rec_lo.txt",
                         "Haar reconstruction low-pass"),
       basic_save_vector(haar_rec_hi, "filter_haar_rec_hi.txt",
                         "Haar reconstruction high-pass"),
       basic_save_vector(haar_dec_lo, "filter_db2_dec_lo.txt", "Daubechies 2 = Haar"),
       basic_save_vector(db4_dec_lo, "filter_db4_dec_lo.txt",
                         "Daubechies 4 decomposition low-pass"),
       basic_save_vector(db4_dec_hi, "filter_db4_dec_hi.txt",
                         "Daubechies 4 decomposition high-pass") >>

generate_test_parameters ==
    << open_write("cwt_test_params.txt",
                  << HeaderLine("CWT test parameters"),
                     TextLine("sampling_rate=1000.0"),
                     TextLine("signal_length=256"),
                     TextLine("num_scales=20"),
                     TextLine("scale_min=1.0"),
                     TextLine("scale_max=50.0") >>) >>

\* the writes of main() of the basic generator, in program order
basic_main ==
    generate_haar_reference \o basic_generate_fft_reference \o
    generate_wavelet_filters \o generate_test_parameters

(***************************************************************************)
(* The numeric libraries, as far as the generator relies on them.          *)
(***************************************************************************)
\* len(scipy.fft.fft(x)) = len(x); the values are the library's
scipy_fft(name, signal) ==
    [real |-> Lib("fft(" \o name \o ").real", Len(signal)),
     imag |-> Lib("fft(" \o name \o ").imag", Len(signal))]

\* number of taps of pywt.Wavelet(name).dec_lo
pywt_dec_len(wavelet_name) ==
    CASE wavelet_name = "haar" -> 2
      [] wavelet_name = "db2" -> 4
      [] wavelet_name = "db4" -> 8
      [] wavelet_name = "db8" -> 16
      [] wavelet_name = "sym4" -> 8
      [] wavelet_name = "coif2" -> 12

\* pywt.Wavelet(name).dec_lo: the taps of haar, db2 and db4 rounded to
\* 1e-8 (haar: exactly 1/sqrt2), the others by index
pywt_dec_lo(wavelet_name) ==
    CASE wavelet_name = "haar" -> <<OverSqrt2(1), OverSqrt2(1)>>
      [] wavelet_name = "db2" ->
            <<E8(-12940952), E8(22414387), E8(83651630), E8(48296291)>>
      [] wavelet_name = "db4" ->
            <<E8(-1059740), E8(3288301), E8(3084138), E8(-18703481),
              E8(-2798377), E8(63088077), E8(71484657), E8(23037781)>>
      [] OTHER -> Lib("pywt." \o wavelet_name \o ".dec_lo", pywt_dec_len(wavelet_name))

Neg(v) == V(v.u, 0 - v.n)
Reverse(s) == [i \in 1..Len(s) |-> s[Len(s) + 1 - i]]
Exact(wavelet_name) == wavelet_name \in {"haar", "db2", "db4"}

\* the quadrature mirror of dec_lo: dec_hi[k] = (-1)^(k+1) * dec_lo[N-1-k]
pywt_dec_hi(wavelet_name) ==
    IF Exact(wavelet_name)
    THEN LET lo == pywt_dec_lo(wavelet_name) IN
         [i \in 1..Len(lo) |->
            IF i % 2 = 1 THEN Neg(lo[Len(lo) + 1 - i]) ELSE lo[Len(lo) + 1 - i]]
    ELSE Lib("pywt." \o wavelet_name \o ".dec_hi", pywt_dec_len(wavelet_name))

pywt_rec_lo(wavelet_name) ==
    IF Exact(wavelet_name) THEN Reverse(pywt_dec_lo(wavelet_name))
    ELSE Lib("pywt." \o wavelet_name \o ".rec_lo", pywt_dec_len(wavelet_name))

pywt_rec_hi(wavelet_name) ==
    IF Exact(wavelet_name) THEN Reverse(pywt_dec_hi(wavelet_name))
    ELSE Lib("pywt." \o wavelet_name \o ".rec_hi", pywt_dec_len(wavelet_name))

\* length of each band of pywt.dwt in the default (symmetric) mode
pywt_dwt_len(len, wavelet_name) == (len + pywt_dec_len(wavelet_name) - 1) \div 2

\* pywt.dwt(signal, wavelet) = (cA, cD)
pywt_dwt(name, signal, wavelet_name) ==
    LET len == pywt_dwt_len(Len(signal), wavelet_name) IN
    << Lib("dwt(" \o name \o "," \o wavelet_name \o ").cA", len),
       Lib("dwt(" \o name \o "," \o wavelet_name \o ").cD", len) >>

RECURSIVE wavedec_len(_, _, _)
\* length of the approximation band after `level` levels
wavedec_len(len, wavelet_name, level) ==
    IF level = 0 THEN len
    ELSE wavedec_len(pywt_dwt_len(len, wavelet_name), wavelet_name, level - 1)

\* pywt.wavedec(signal, wavelet, level) = [cA_n, cD_n, cD_n-1, ..., cD_1]
pywt_wavedec(signal, wavelet_name, level) ==
    << Lib("wavedec.cA" \o ToString(level),
           wavedec_len(Len(signal), wavelet_name, level)) >> \o
    [j \in 1..level |->
        Lib("wavedec.cD" \o ToString(level + 1 - j),
            wavedec_len(Len(signal), wavelet_name, level + 1 - j))]

\* one band of the stationary transform: as long as the signal
swt_band(band, level, signal) == Lib("swt." \o band \o ToString(level), Len(signal))

\* pywt.swt(signal, wavelet, level, trim_approx=False)
\*   = [(cA_n, cD_n), ..., (cA_2, cD_2), (cA_1, cD_1)]
pywt_swt(signal, level) ==
    [j \in 1..level |->
        << swt_band("cA", level + 1 - j, signal),
           swt_band("cD", level + 1 - j, signal) >>]

\* scipy.signal.cwt(signal, morlet2, widths): len(widths) rows of len(signal)
scipy_cwt(name, signal, widths) ==
    [r \in 1..Len(widths) |->
        [c \in 1..Len(signal) |->
            Cplx(V("cwt(" \o name \o ").real", (r - 1) * Len(signal) + c - 1),
                 V("cwt(" \o name \o ").imag", (r - 1) * Len(signal) + c - 1))]]

\* np.abs / np.angle of a complex matrix, element by element
np_elementwise(fname, m) ==
    [r \in 1..Len(m) |-> [c \in 1..Len(m[r]) |-> V(fname \o "(" \o m[r][c].re.u \o ")", m[r][c].re.n)]]

(***************************************************************************)
(* The full generator.                                                     *)
(***************************************************************************)
RECURSIVE Flatten(_)
Flatten(ss) == IF ss = <<>> THEN <<>> ELSE Head(ss) \o Flatten(Tail(ss))

signal8 == [i \in 1..8 |-> Int1(i)]

generate_fft_reference ==
    LET signal1 == Lib("signal1", Min(fft_n, MaxSine))
        fft1 == scipy_fft("signal1", signal1)
        signal2 == [i \in 1..8 |-> Cplx(Int1(2 * i - 1), Int1(2 * i))]
        fft2 == scipy_fft("signal2", signal2)
    IN
    << save_vector(signal1, "fft_sine_input.txt", "64-point sine wave at 50Hz, fs=1000Hz"),
       save_vector(fft1.real, "fft_sine_output_real.txt", "FFT real part"),
       save_vector(fft1.imag, "fft_sine_output_imag.txt", "FFT imaginary part"),
       open_write("fft_complex_input.txt",
                  <<HeaderLine("Complex test signal")>> \o
                  [i \in 1..Len(signal2) |-> DataLine(<<FmtComplex(signal2[i])>>)]),
       open_write("fft_complex_output.txt",
                  <<HeaderLine("FFT of complex signal")>> \o
                  [i \in 1..Len(signal2) |->
                      DataLine(<<FmtComplex(Cplx(fft2.real[i], fft2.imag[i]))>>)]) >>

\* f"dwt_haar_multilevel_{i}.txt" for enumerate index i (0-based)
multilevel_name(i) == "dwt_haar_multilevel_" \o ToString(i) \o ".txt"

generate_dwt_reference ==
    LET coeffs_haar == pywt_dwt("signal", signal8, "haar")
        coeffs_db4 == pywt_dwt("signal", signal8, "db4")
        coeffs_multi == pywt_wavedec(signal8, "haar", 3)
    IN
    << save_vector(signal8, "dwt_haar_input.txt", "Test signal [1,2,3,4,5,6,7,8]"),
       save_vector(coeffs_haar[1], "dwt_haar_approx.txt", "Haar approximation coefficients"),
       save_vector(coeffs_haar[2], "dwt_haar_detail.txt", "Haar detail coefficients"),
       save_vector(coeffs_db4[1], "dwt_db4_approx.txt",
                   "Daubechies 4 approximation coefficients"),
       save_vector(coeffs_db4[2], "dwt_db4_detail.txt",
                   "Daubechies 4 detail coefficients") >> \o
    [k \in 1..Len(coeffs_multi) |->
        save_vector(coeffs_multi[k], multilevel_name(k - 1),
                    "Haar multi-level decomposition level " \o ToString(k - 1))]

\* the level number the loop gives the element with enumerate index i: i+1
modwt_level(i) == i + 1
modwt_name(band, lev) == "modwt_haar_" \o band \o "_level" \o ToString(lev) \o ".txt"

generate_modwt_reference ==
    LET coeffs == pywt_swt(signal8, 3) IN
    << save_vector(signal8, "modwt_haar_input.txt", "Test signal for MODWT") >> \o
    Flatten([k \in 1..Len(coeffs) |->
        << save_vector(coeffs[k][2], modwt_name("detail", modwt_level(k - 1)),
                       "MODWT Haar detail coefficients level "
                           \o ToString(modwt_level(k - 1))),
           save_vector(coeffs[k][1], modwt_name("approx", modwt_level(k - 1)),
                       "MODWT Haar approximation coefficients level "
                           \o ToString(modwt_level(k - 1))) >>])

generate_cwt_reference ==
    LET signal == Lib("chirp", Min(cwt_fs, MaxChirp))
        widths == arange(1, 1 + Min(cwt_widths, MaxWidths))
        cwt_matrix == scipy_cwt("chirp", signal, widths)
        small_scales == arange(1, 5)
        small_cwt == scipy_cwt("small", signal8, small_scales)
    IN
    << save_vector(signal, "cwt_chirp_input.txt",
                   "Chirp signal 10-100Hz, 1 second, fs=1000Hz"),
       save_vector(widths, "cwt_scales.txt", "CWT scales"),
       save_matrix(np_elementwise("abs", cwt_matrix), "cwt_morlet_magnitude.txt",
                   "CWT magnitude (Morlet)"),
       save_matrix(np_elementwise("angle", cwt_matrix), "cwt_morlet_phase.txt",
                   "CWT phase (Morlet)"),
       save_vector(signal8, "cwt_small_input.txt", "Small test signal"),
       save_vector(small_scales, "cwt_small_scales.txt", "Small test scales"),
       save_complex_matrix(small_cwt, "cwt_small_output.txt", "CWT output (complex)") >>

wavelets == <<"haar", "db2", "db4", "db8", "sym4", "coif2">>

filter_name(wavelet_name, filt) == "filter_" \o wavelet_name \o "_" \o filt \o ".txt"

generate_wavelet_filter_reference ==
    Flatten([w \in 1..Len(wavelets) |->
        LET wavelet_name == wavelets[w] IN
        << save_vector(pywt_dec_lo(wavelet_name), filter_name(wavelet_name, "dec_lo"),
                       wavelet_name \o " decomposition low-pass filter"),
           save_vector(pywt_dec_hi(wavelet_name), filter_name(wavelet_name, "dec_hi"),
                       wavelet_name \o " decomposition high-pass filter"),
           save_vector(pywt_rec_lo(wavelet_name), filter_name(wavelet_name, "rec_lo"),
                       wavelet_name \o " reconstruction low-pass filter"),
           save_vector(pywt_rec_hi(wavelet_name), filter_name(wavelet_name, "rec_hi"),
                       wavelet_name \o " reconstruction high-pass filter") >>])

\* the dictionary edge_signals, in insertion order
edge_signals ==
    << [name |-> "empty", signal |-> <<>>],
       [name |-> "single", signal |-> <<Int1(42)>>],
       [name |-> "power_of_2", signal |-> arange(0, 16)],
       [name |-> "non_power_of_2", signal |-> arange(0, 13)],
       [name |-> "zeros", signal |-> Rep(Int1(0), 8)],
       [name |-> "ones", signal |-> Rep(Int1(1), 8)],
       [name |-> "impulse", signal |-> <<Int1(0), Int1(0), Int1(0), Int1(1),
                                        Int1(0), Int1(0), Int1(0), Int1(0)>>] >>

\* the file name without the name of the edge case
edge_name_anonymous(name, role) == "edge_case_" \o role \o ".txt"

edge_name(name, role) == "edge_case_" \o name \o "_" \o role \o ".txt"

\* if len(signal) > 0:
edge_has_input(signal) == Len(signal) > 0
\* the DWT step guarded like the FFT step
edge_has_dwt_nonempty(signal) == Len(signal) > 0

\* if len(signal) > 1:
edge_has_dwt(signal) == Len(signal) > 1

\* a call made inside the try block of edge case `name`
InTry(call, name) == [call EXCEPT !.try = name]

\* the body of the loop of generate_special_cases for one edge case
edge_case(name, signal) ==
    IF ~edge_has_input(signal) THEN <<>>
    ELSE
      << save_vector(signal, edge_name(name, "input"), "Edge case: " \o name) >> \o
      (IF Len(signal) > 0
       THEN LET fft_result == scipy_fft(name, signal) IN
            << save_vector(fft_result.real, edge_name(name, "fft_real"),
                           "FFT real part of " \o name),
               save_vector(fft_result.imag, edge_name(name, "fft_imag"),
                           "FFT imag part of " \o name) >>
       ELSE <<>>) \o
      (IF edge_has_dwt(signal)
       THEN LET coeffs == pywt_dwt(name, signal, "haar") IN
            << InTry(save_vector(coeffs[1], edge_name(name, "dwt_approx"),
                                 "DWT approx of " \o name), name),
               InTry(save_vector(coeffs[2], edge_name(name, "dwt_detail"),
                                 "DWT detail of " \o name), name) >>
       ELSE <<>>)

generate_special_cases ==
    Flatten([e \in 1..Len(edge_signals) |->
                edge_case(edge_signals[e].name, edge_signals[e].signal)])

\* the writes of main() of the full generator, in program order
full_main ==
    generate_fft_reference \o generate_dwt_reference \o generate_modwt_reference \o
    generate_cwt_reference \o generate_wavelet_filter_reference \o
    generate_special_cases

(***************************************************************************)
(* Running the scripts.                                                    *)
(***************************************************************************)
Program(p) == IF p = "basic" THEN basic_main ELSE full_main

NoCall == [fn |-> "none", filename |-> "", header |-> "", data |-> <<>>,
           lines |-> <<>>, try |-> "", outcome |-> "none"]

Outcome(call, outcome) ==
    [fn |-> call.fn, filename |-> call.filename, header |-> call.header,
     data |-> call.data, lines |-> call.lines, try |-> call.try, outcome |-> outcome]

\* open(filepath, 'w') ... close: the file holds exactly `lines`
WriteFile(filename, lines) ==
    [f \in DOMAIN files \cup {filename} |-> IF f = filename THEN lines ELSE files[f]]

\* an exception that reaches the top level of a script: traceback, status 1
Uncaught(exc) == [printed |-> {"Traceback", exc}, exit |-> 1]

\* the except clauses of main() of the full generator
main_except(exc) ==
    IF exc = "ImportError"
    THEN [printed |-> {"Error: Missing required Python package.",
                       "Please install required packages:",
                       "pip install numpy scipy pywavelets"},
          exit |-> 1]
    ELSE [printed |-> {"Error generating reference data:", exc}, exit |-> 1]

\* what an exception raised in main() of script p leads to
Abort(p, exc) == IF p = "full" THEN main_except(exc) ELSE Uncaught(exc)

\* the first statement after the try block that call number i is in
RECURSIVE AfterTry(_, _, _)
AfterTry(ops, i, try) ==
    IF i > Len(ops) \/ ops[i].try # try THEN i ELSE AfterTry(ops, i + 1, try)

\* the directory a complete run of the calls `ops` leaves behind
FilesAfter(ops) ==
    LET written == {i \in 1..Len(ops) : ops[i].fn # "raise"} IN
    [f \in {ops[i].filename : i \in written} |->
        ops[CHOOSE i \in written :
                /\ ops[i].filename = f
                /\ \A j \in written : ops[j].filename = f => j <= i].lines]

\* the output directory before the first run of a behaviour: empty, or as a
\* complete earlier run of one of the scripts left it
PriorDirs == {FilesAfter(<< >>), FilesAfter(basic_main), FilesAfter(full_main)}

Init ==
    /\ files \in PriorDirs
    /\ prog = "none"
    /\ phase = "idle"
    /\ pc = 0
    /\ runs = 0
    /\ failures = 0
    /\ opened = << >>
    /\ done = {}
    /\ swallowed = {}
    /\ printed = {}
    /\ total = -1
    /\ exit = -1
    /\ depsOk = TRUE
    /\ lastCall = NoCall

\* a new process starts: nothing opened, nothing printed
Fresh(p) ==
    /\ runs' = runs + 1
    /\ prog' = p
    /\ failures' = 0
    /\ opened' = << >>
    /\ done' = {}
    /\ swallowed' = {}
    /\ total' = -1
    /\ lastCall' = NoCall
    /\ UNCHANGED files

\* python generate_basic_reference.py: import math, os; makedirs; main()
RunBasic ==
    /\ Fresh("basic")
    /\ phase' = "running"
    /\ pc' = 1
    /\ printed' = {"Generating basic reference test data for JWave..."}
    /\ exit' = -1
    /\ UNCHANGED depsOk

\* python generate_reference_data.py with numpy, scipy and pywt installed
RunFull ==
    /\ Fresh("full")
    /\ depsOk' = TRUE
    /\ phase' = "running"
    /\ pc' = 1
    /\ printed' = {"Generating reference test data for JWave..."}
    /\ exit' = -1

\* python generate_reference_data.py with a dependency missing: the import
\* statements at module level raise before main() is entered
RunFullNoDeps ==
    /\ Fresh("full")
    /\ depsOk' = FALSE
    /\ phase' = "exited"
    /\ pc' = 0
    /\ printed' = Uncaught("ImportError").printed
    /\ exit' = Uncaught("ImportError").exit

\* the first run of a behaviour
StartBasic == phase = "idle" /\ RunBasic
StartFull == phase = "idle" /\ RunFull
ImportFails == phase = "idle" /\ RunFullNoDeps

\* a further run, after the previous process has ended
AgainBasic == phase = "exited" /\ runs < MaxRuns /\ RunBasic
AgainFull == phase = "exited" /\ runs < MaxRuns /\ RunFull
AgainImportFails == phase = "exited" /\ runs < MaxRuns /\ RunFullNoDeps

Running == phase = "running" /\ pc >= 1 /\ pc <= Len(Program(prog))
CurrentCall == Program(prog)[pc]

\* an exception leaves the statement at pc: swallowed by the enclosing
\* try/except: pass, or the end of the run
Raise(call, exc) ==
    IF call.try # ""
    THEN /\ swallowed' = swallowed \cup {call.try}
         /\ pc' = AfterTry(Program(prog), pc, call.try)
         /\ UNCHANGED <<phase, printed, exit>>
    ELSE /\ phase' = "exited"
         /\ printed' = printed \cup Abort(prog, exc).printed
         /\ exit' = Abort(prog, exc).exit
         /\ UNCHANGED <<pc, swallowed>>

\* the statement at pc runs to its end
Execute ==
    /\ Running
    /\ LET call == CurrentCall IN
       IF call.fn = "raise"
       THEN /\ Raise(call, call.filename)
            /\ lastCall' = Outcome(call, "raised")
            /\ UNCHANGED <<files, opened, done>>
       ELSE /\ files' = WriteFile(call.filename, call.lines)
            /\ opened' = Append(opened, call.filename)
            /\ done' = done \cup {call.filename}
            /\ lastCall' = Outcome(call, "ok")
            /\ pc' = pc + 1
            /\ UNCHANGED <<phase, printed, exit, swallowed>>
    /\ UNCHANGED <<prog, runs, failures, total, depsOk>>

\* open(filepath, 'w') raises OSError: the file is not touched
OpenFails ==
    /\ Running
    /\ CurrentCall.fn # "raise"
    /\ failures < MaxFailures
    /\ failures' = failures + 1
    /\ Raise(CurrentCall, "OSError")
    /\ lastCall' = Outcome(CurrentCall, "open failed")
    /\ UNCHANGED <<files, opened, done, prog, runs, total, depsOk>>

\* open(filepath, 'w') truncates the file, then a write raises OSError after
\* k lines reached the disk
WriteFails ==
    /\ Running
    /\ CurrentCall.fn # "raise"
    /\ failures < MaxFailures
    /\ failures' = failures + 1
    /\ \E k \in 0..Min(Len(CurrentCall.lines) - 1, MaxPartial) :
          files' = WriteFile(CurrentCall.filename, SubSeq(CurrentCall.lines, 1, k))
    /\ opened' = Append(opened, CurrentCall.filename)
    /\ Raise(CurrentCall, "OSError")
    /\ lastCall' = Outcome(CurrentCall, "write failed")
    /\ UNCHANGED <<done, prog, runs, total, depsOk>>

\* len(os.listdir(output_dir))
listdir_count == Cardinality(DOMAIN files)

\* the summary at the end of main()
Summary ==
    /\ phase = "running"
    /\ pc = Len(Program(prog)) + 1
    /\ phase' = "exited"
    /\ total' = listdir_count
    /\ printed' = printed \cup {"=== Summary ===", "Total files created:"} \cup
                  (IF prog = "basic" THEN {"pip install numpy scipy pywavelets"} ELSE {})
    /\ exit' = 0
    /\ UNCHANGED <<files, prog, pc, runs, failures, opened, done, swallowed,
                   depsOk, lastCall>>

\* one run, in which opening and writing files can fail
Next ==
    \/ StartBasic
    \/ StartFull
    \/ ImportFails
    \/ Execute
    \/ OpenFails
    \/ WriteFails
    \/ Summary

Spec == Init /\ [][Next]_vars

\* up to MaxRuns runs one after the other, without I/O failures
NextRuns ==
    \/ StartBasic
    \/ StartFull
    \/ ImportFails
    \/ AgainBasic
    \/ AgainFull
    \/ AgainImportFails
    \/ Execute
    \/ Summary

\* the first run finds the output directory empty
InitRuns == Init /\ files = FilesAfter(<< >>)

SpecRuns == InitRuns /\ [][NextRuns]_vars

TypeOK ==
    /\ prog \in {"none", "basic", "full"}
    /\ phase \in {"idle", "running", "exited"}
    /\ runs \in 0..MaxRuns
    /\ failures \in 0..MaxFailures

(***************************************************************************)
(* Properties.                                                             *)
(***************************************************************************)
Opened == {opened[i] : i \in 1..Len(opened)}
Names(ops) == {ops[i].filename : i \in {j \in 1..Len(ops) : ops[j].fn # "raise"}}
RunOk == phase = "exited" /\ exit = 0
\* the call of script p that writes file f
CallOf(p, f) == Program(p)[CHOOSE i \in 1..Len(Program(p)) : Program(p)[i].filename = f]
\* the lines of a file after its header line
Body(lines) == IF lines = << >> THEN << >> ELSE Tail(lines)
\* the numbers of a vector file, line by line
Numbers(lines) == [i \in 1..Len(Body(lines)) |-> Body(lines)[i].cells[1][1]]
EdgeNames == {edge_signals[e].name : e \in 1..Len(edge_signals)}
EdgeSignal(name) ==
    edge_signals[CHOOSE e \in 1..Len(edge_signals) : edge_signals[e].name = name].signal
EdgeRoles == {"input", "fft_real", "fft_imag", "dwt_approx", "dwt_detail"}

\* C1: when numpy, scipy or pywt is missing, a run of the full generator ends
\* with the "pip install numpy scipy pywavelets" diagnostic of main's
\* ImportError handler and a non-zero exit status.
C1_MissingDependencyDiagnosed ==
    (prog = "full" /\ phase = "exited" /\ ~depsOk) =>
        /\ "pip install numpy scipy pywavelets" \in printed
        /\ exit > 0

\* C2: the "empty" edge case produces none of its five files, the "single"
\* edge case produces input and both FFT files but no DWT file, and every
\* longer edge case produces input, both FFT files and, unless its DWT step
\* failed, both DWT files.
C2_EdgeCaseFiles ==
    /\ \A role \in EdgeRoles : edge_name("empty", role) \notin Opened
    /\ \A role \in {"dwt_approx", "dwt_detail"} : edge_name("single", role) \notin Opened
    /\ (prog = "full" /\ RunOk) =>
          \A name \in EdgeNames \ {"empty"} :
             /\ {edge_name(name, "input"), edge_name(name, "fft_real"),
                 edge_name(name, "fft_imag")} \subseteq done
             /\ (Len(EdgeSignal(name)) > 1 /\ name \notin swallowed) =>
                   {edge_name(name, "dwt_approx"), edge_name(name, "dwt_detail")}
                       \subseteq done

\* a full run ended well: one DWT step failed and was swallowed, the others ran
C2_Witness ==
    /\ prog = "full" /\ RunOk
    /\ swallowed = {"zeros"}
    /\ edge_name("single", "fft_imag") \in done
    /\ edge_name("impulse", "dwt_detail") \in done
    /\ edge_name("zeros", "dwt_detail") \notin done

\* C3: a failure anywhere in an edge case's DWT step is swallowed: the run
\* goes on to the remaining edge cases and ends with status 0, and neither
\* the _dwt_approx nor the _dwt_detail file of that edge case is produced.
C3_DwtFailureLeavesNoFile ==
    \A name \in swallowed :
       /\ edge_name(name, "dwt_approx") \notin Opened
       /\ edge_name(name, "dwt_detail") \notin Opened
       /\ (phase = "exited" /\ failures = Cardinality(swallowed)) =>
             /\ exit = 0
             /\ \A other \in EdgeNames \ {"empty"} : edge_name(other, "input") \in done

\* C4: within one run no output path is opened for writing more than once.
C4_NoPathOpenedTwice ==
    \A i, j \in 1..Len(opened) : opened[i] = opened[j] => i = j

\* a full run that made every one of its writes
C4_Witness ==
    /\ prog = "full" /\ RunOk
    /\ Len(opened) = Len(full_main)
    /\ Len(opened) > Cardinality(EdgeNames)

\* C5: a file written by save_vector holds one "# header" line exactly when a
\* non-empty header is given, followed by exactly len(data) data lines in the
\* order of the data; a file written by save_matrix or save_complex_matrix
\* holds one data line per row, and each row line one number (or one
\* real,imag pair) per column.
C5_LinesMatchData ==
    LET c == lastCall
        h == IF c.header # "" THEN 1 ELSE 0
    IN
    (c.outcome = "ok" /\ c.fn \in {"save_vector", "save_matrix", "save_complex_matrix"}) =>
       LET L == files[c.filename] IN
       /\ Len(L) = h + Len(c.data)
       /\ h = 1 => (L[1].kind = "header" /\ L[1].text = c.header)
       /\ \A i \in 1..Len(c.data) :
             /\ L[h + i].kind = "data"
             /\ c.fn = "save_vector" => L[h + i].cells = << <<c.data[i]>> >>
             /\ c.fn = "save_matrix" =>
                   /\ Len(L[h + i].cells) = Len(c.data[i])
                   /\ \A k \in 1..Len(c.data[i]) : L[h + i].cells[k] = <<c.data[i][k]>>
             /\ c.fn = "save_complex_matrix" =>
                   /\ Len(L[h + i].cells) = Len(c.data[i])
                   /\ \A k \in 1..Len(c.data[i]) :
                         L[h + i].cells[k] = <<c.data[i][k].re, c.data[i][k].im>>

\* save_complex_matrix has just written a matrix of several rows and columns
C5_Witness ==
    /\ lastCall.outcome = "ok"
    /\ lastCall.fn = "save_complex_matrix"
    /\ Len(lastCall.data) > 1
    /\ Len(lastCall.data[1]) > 1
    /\ Len(files[lastCall.filename]) = 1 + Len(lastCall.data)

\* C6: every file of the output directory holds the complete output of a
\* single write, also after a run that ended with an exception, and no run
\* removes a file.
C6_EveryFileWhole ==
    [][ /\ DOMAIN files \subseteq DOMAIN files'
        /\ \A f \in DOMAIN files' :
              \E p \in {"basic", "full"} :
                 f \in Names(Program(p)) /\ files'[f] = CallOf(p, f).lines ]_vars

\* C7: the manual Haar transform of [1..8] emits 4 approximation and 4 detail
\* coefficients, coefficient k from the pair (signal[2k], signal[2k+1]):
\* approximation [3,7,11,15]/sqrt2, detail [-1,-1,-1,-1]/sqrt2, and the loop
\* never reads past the end of the signal.
C7_HaarManual ==
    /\ "IndexError" \notin printed
    /\ (prog = "basic" /\ "haar_level1_approx_manual.txt" \in done) =>
          Numbers(files["haar_level1_approx_manual.txt"]) =
             <<OverSqrt2(3), OverSqrt2(7), OverSqrt2(11), OverSqrt2(15)>>
    /\ (prog = "basic" /\ "haar_level1_detail_manual.txt" \in done) =>
          Numbers(files["haar_level1_detail_manual.txt"]) =
             <<OverSqrt2(-1), OverSqrt2(-1), OverSqrt2(-1), OverSqrt2(-1)>>

\* the basic generator has written both coefficient files
C7_Witness ==
    /\ prog = "basic"
    /\ {"haar_level1_approx_manual.txt", "haar_level1_detail_manual.txt"} \subseteq done

\* C8: modwt_haar_approx_level{k}.txt and modwt_haar_detail_level{k}.txt hold
\* the level-k bands of the 3-level stationary transform of [1..8], for k in
\* 1..3, and a run that is past that section has written exactly 6 band files.
C8_ModwtFilesHoldTheirLevel ==
    /\ \A k \in 1..3 :
          /\ (prog = "full" /\ modwt_name("approx", k) \in done) =>
                Numbers(files[modwt_name("approx", k)]) = swt_band("cA", k, signal8)
          /\ (prog = "full" /\ modwt_name("detail", k) \in done) =>
                Numbers(files[modwt_name("detail", k)]) = swt_band("cD", k, signal8)
    /\ (prog = "full" /\ RunOk) =>
          Cardinality({f \in Opened :
                          \E k \in 1..3 : f \in {modwt_name("approx", k),
                                                 modwt_name("detail", k)}}) = 6

\* C9: the seven files that both generators write get the same numbers from
\* both, so the directory does not depend on which generator ran last.
C9_GeneratorsAgree ==
    /\ Names(basic_main) \cap Names(full_main) =
          {"filter_haar_dec_lo.txt", "filter_haar_dec_hi.txt", "filter_haar_rec_lo.txt",
           "filter_haar_rec_hi.txt", "filter_db2_dec_lo.txt", "filter_db4_dec_lo.txt",
           "filter_db4_dec_hi.txt"}
    /\ \A f \in (Names(basic_main) \cap Names(full_main)) \cap done :
          /\ Numbers(files[f]) = Numbers(CallOf("basic", f).lines)
          /\ Numbers(files[f]) = Numbers(CallOf("full", f).lines)

\* C10: the number printed as "Total files created" by a run that succeeds is
\* the number of files that run wrote, whatever the directory held before.
C10_TotalIsFilesCreated ==
    RunOk => total = Cardinality(Opened)

====
